---------------------------- MODULE Spec2Model ----------------------------
(***************************************************************************)
(* A model of the wordnet library: Digraph (sparse external ids remapped   *)
(* to dense vertex indices), ShortestCommonAncestor::ancestor_length (the  *)
(* two-colour multi-source BFS), the part of WordNet's constructor that    *)
(* builds the graph, and Outcast::outcast.                                 *)
(*                                                                         *)
(* Dense vertex indices are 0-based as in the code; TLA+ sequences are     *)
(* 1-based, so vertex i of a std::vector is element i + 1 of its sequence. *)
(***************************************************************************)
EXTENDS Integers, Sequences, FiniteSets

VARIABLES
    graph,        \* Digraph::graph        vert -> vert, vert, ...
    id_vert_map,  \* Digraph::id_vert_map  id -> vert
    vert_id_map,  \* Digraph::vert_id_map  vert -> id
    capacity,     \* graph.capacity(): the allocated size of the outer vector
    crashed,      \* the process was ended by a write through a dangling reference
    calls,        \* history: the <<v, w>> of every add_edge call so far
    pc,           \* position of the driver: "build", "ready" or "query"
    bfs,          \* the frame of the running ancestor_length call
    ret           \* what the last call returned

vars == <<graph, id_vert_map, vert_id_map, capacity, crashed, calls, pc, bfs, ret>>

-----------------------------------------------------------------------------
(* Bounds of the model. *)

\* external ids are 0 .. MaxId
MaxId == 2
\* at most MaxEdges add_edge calls
MaxEdges == 2
\* reset_graph_size is called with 0 .. MaxReserve
MaxReserve == 2
\* a query subset holds 1 .. MaxSub ids
MaxSub == 2

Ids == 0 .. MaxId

-----------------------------------------------------------------------------
(* unsigned: 32 bits, kept as two 16-bit halves so that wrap-around is     *)
(* computed exactly.                                                       *)

Half == 65536

U32(n) == [hi |-> (n \div Half) % Half, lo |-> n % Half]

UINT_MAX == [hi |-> Half - 1, lo |-> Half - 1]

U32Add(a, b) ==
    LET lo == a.lo + b.lo
        hi == a.hi + b.hi + (lo \div Half)
    IN  [hi |-> hi % Half, lo |-> lo % Half]

U32Less(a, b) == a.hi < b.hi \/ (a.hi = b.hi /\ a.lo < b.lo)

-----------------------------------------------------------------------------
(* Digraph *)

\* the Digraph object as one value
dg == [graph |-> graph, id_vert_map |-> id_vert_map,
       vert_id_map |-> vert_id_map, capacity |-> capacity]

EmptyDigraph == [graph |-> <<>>, id_vert_map |-> <<>>,
                 vert_id_map |-> <<>>, capacity |-> 0]

\* std::vector growth when size() = capacity(): size + max(size, 1)
GrowCapacity(size) == IF size = 0 THEN 1 ELSE size + size

\* graph.reserve(size): the capacity never shrinks
reset_graph_size(g, size) ==
    [g EXCEPT !.capacity = IF size > @ THEN size ELSE @]

\* id -> vert, registering an unseen id; moved: graph.emplace_back() reallocated
get_or_add_vert(g, v) ==
    IF v \in DOMAIN g.id_vert_map
    THEN [g |-> g, vert |-> g.id_vert_map[v], moved |-> FALSE]
    ELSE LET n == Len(g.vert_id_map)
             full == Len(g.graph) = g.capacity
         IN  [g |-> [graph |-> Append(g.graph, <<>>),
                     id_vert_map |-> [x \in DOMAIN g.id_vert_map \cup {v} |->
                                         IF x = v THEN n ELSE g.id_vert_map[x]],
                     vert_id_map |-> Append(g.vert_id_map, v),
                     capacity |-> IF full THEN GrowCapacity(Len(g.graph))
                                  ELSE g.capacity],
              vert |-> n,
              moved |-> full]

\* what a list written through a dangling reference may hold afterwards: the
\* append never reaches it, and its storage may have been released, so each
\* element is any value (Len(g.graph) stands for every out-of-range one)
DanglingWrite(g, vert) ==
    { [g EXCEPT !.graph[vert + 1] = junk] :
        junk \in [1 .. Len(g.graph[vert + 1]) -> 0 .. Len(g.graph)] }

\* graph[get_or_add_vert(v)].emplace_back(get_or_add_vert(w)): the reference
\* graph[..] is taken first, then w is registered, then the element is
\* appended.  The set of outcomes, each [g, crashed].
add_edge(g, v, w) ==
    LET a == get_or_add_vert(g, v)
        b == get_or_add_vert(a.g, w)
    IN  IF ~b.moved
        THEN {[g |-> [b.g EXCEPT !.graph[a.vert + 1] = Append(@, b.vert)],
               crashed |-> FALSE]}
        ELSE {[g |-> b.g, crashed |-> TRUE]}
             \cup {[g |-> h, crashed |-> FALSE] : h \in DanglingWrite(b.g, a.vert)}

\* the possible return values of get_neighbours(v); one value unless the
\* adjacency list holds an out-of-range index, whose id is then any value
get_neighbours(g, v) ==
    IF v \in DOMAIN g.id_vert_map
    THEN LET neighbours == g.graph[g.id_vert_map[v] + 1]
         IN  { r \in [1 .. Len(neighbours) -> 0 .. MaxId + 1] :
                 \A i \in 1 .. Len(neighbours) :
                     neighbours[i] < Len(g.vert_id_map)
                         => r[i] = g.vert_id_map[neighbours[i] + 1] }
    ELSE {<<>>}

\* Digraph::size
size(g) == Len(g.graph)

\* Digraph::print: for each vertex in dense order, its id and its neighbours'
\* ids; the set of possible outputs (one unless an index is out of range)
print(g) ==
    LET n == Len(g.graph)
        lines == UNION {get_neighbours(g, g.vert_id_map[i]) : i \in 1 .. n}
    IN  { [i \in 1 .. n |-> <<g.vert_id_map[i], f[i]>>] :
            f \in { h \in [1 .. n -> lines] :
                      \A i \in 1 .. n : h[i] \in get_neighbours(g, g.vert_id_map[i]) } }

-----------------------------------------------------------------------------
(* The Digraph driven through its public interface. *)

NoFrame == [pc |-> "none"]
NoReturn == [op |-> "none"]

SetDigraph(g) ==
    /\ graph' = g.graph
    /\ id_vert_map' = g.id_vert_map
    /\ vert_id_map' = g.vert_id_map
    /\ capacity' = g.capacity

Init ==
    /\ graph = <<>>
    /\ id_vert_map = <<>>
    /\ vert_id_map = <<>>
    /\ capacity = 0
    /\ crashed = FALSE
    /\ calls = <<>>
    /\ pc = "build"
    /\ bfs = NoFrame
    /\ ret = NoReturn

ResetGraphSize(n) ==
    /\ ~crashed
    /\ pc = "build"
    /\ SetDigraph(reset_graph_size(dg, n))
    /\ ret' = [op |-> "reset_graph_size"]
    /\ UNCHANGED <<crashed, calls, pc, bfs>>

AddEdge(v, w) ==
    /\ ~crashed
    /\ pc = "build"
    /\ Len(calls) < MaxEdges
    /\ \E o \in add_edge(dg, v, w) :
          /\ SetDigraph(o.g)
          /\ crashed' = o.crashed
    /\ calls' = Append(calls, <<v, w>>)
    /\ ret' = [op |-> "add_edge"]
    /\ UNCHANGED <<pc, bfs>>

GetNeighbours(v) ==
    /\ ~crashed
    /\ pc = "build"
    /\ \E r \in get_neighbours(dg, v) :
          ret' = [op |-> "get_neighbours", v |-> v, val |-> r]
    /\ UNCHANGED <<graph, id_vert_map, vert_id_map, capacity, crashed, calls, pc, bfs>>

Dump ==
    /\ ~crashed
    /\ pc = "build"
    /\ \E out \in print(dg) : ret' = [op |-> "print", val |-> out]
    /\ UNCHANGED <<graph, id_vert_map, vert_id_map, capacity, crashed, calls, pc, bfs>>

NextDigraph ==
    \/ \E n \in 0 .. MaxReserve : ResetGraphSize(n)
    \/ \E v \in Ids, w \in Ids : AddEdge(v, w)
    \/ \E v \in Ids : GetNeighbours(v)
    \/ Dump

SpecDigraph == Init /\ [][NextDigraph]_vars

-----------------------------------------------------------------------------
(* ShortestCommonAncestor::ancestor_length, one step at a time.  A frame   *)
(* holds the locals of one call; pc is the position in the function.       *)

Start(g, subset_a, subset_b) ==
    [pc |-> "seed_a",
     subset_a |-> subset_a,
     subset_b |-> subset_b,
     i |-> 1,
     distance |-> [k \in 1 .. Len(g.graph) |-> 0],
     color |-> [k \in 1 .. Len(g.graph) |-> 0],
     queue |-> <<>>,
     min_distance |-> UINT_MAX,
     min_distance_ancestor |-> 0,
     vert |-> 0,
     j |-> 1,
     result |-> [first |-> 0, second |-> U32(0)]]

\* for (id : subset_a): id_vert_map.at(id) throws on an unregistered id
SeedA(g, s) ==
    IF s.i > Len(s.subset_a) THEN [s EXCEPT !.pc = "seed_b", !.i = 1]
    ELSE LET id == s.subset_a[s.i] IN
         IF id \notin DOMAIN g.id_vert_map THEN [s EXCEPT !.pc = "throw"]
         ELSE LET vert == g.id_vert_map[id] IN
              [s EXCEPT !.color[vert + 1] = 1,
                        !.queue = Append(@, vert),
                        !.i = @ + 1]

\* SeedB returning the dense index of the shared vertex instead of its id
SeedB_ReturnsVert(g, s) ==
    IF s.i > Len(s.subset_b) THEN [s EXCEPT !.pc = "while"]
    ELSE LET id == s.subset_b[s.i] IN
         IF id \notin DOMAIN g.id_vert_map THEN [s EXCEPT !.pc = "throw"]
         ELSE LET vert == g.id_vert_map[id] IN
              IF s.color[vert + 1] = 1
              THEN [s EXCEPT !.pc = "done",
                             !.result = [first |-> vert, second |-> U32(0)]]
              ELSE [s EXCEPT !.color[vert + 1] = 2,
                             !.queue = Append(@, vert),
                             !.i = @ + 1]

\* for (id : subset_b): a vertex already coloured 1 is returned at once
SeedB(g, s) ==
    IF s.i > Len(s.subset_b) THEN [s EXCEPT !.pc = "while"]
    ELSE LET id == s.subset_b[s.i] IN
         IF id \notin DOMAIN g.id_vert_map THEN [s EXCEPT !.pc = "throw"]
         ELSE LET vert == g.id_vert_map[id] IN
              IF s.color[vert + 1] = 1
              THEN [s EXCEPT !.pc = "done",
                             !.result = [first |-> id, second |-> U32(0)]]
              ELSE [s EXCEPT !.color[vert + 1] = 2,
                             !.queue = Append(@, vert),
                             !.i = @ + 1]

\* While returning the vertex popped last instead of the recorded ancestor
While_LastPopped(g, s) ==
    IF s.queue = <<>>
    THEN [s EXCEPT !.pc = "done",
                   !.result = [first |-> g.vert_id_map[s.vert + 1],
                               second |-> s.min_distance]]
    ELSE [s EXCEPT !.pc = "for",
                   !.vert = Head(s.queue),
                   !.queue = Tail(@),
                   !.j = 1]

\* while (!queue.empty()): pop the front, or return the minimum recorded
While(g, s) ==
    IF s.queue = <<>>
    THEN [s EXCEPT !.pc = "done",
                   !.result = [first |-> g.vert_id_map[s.min_distance_ancestor + 1],
                               second |-> s.min_distance]]
    ELSE [s EXCEPT !.pc = "for",
                   !.vert = Head(s.queue),
                   !.queue = Tail(@),
                   !.j = 1]

\* For counting two per edge: distance[to] = distance[vert] + 2
For_TwoPerEdge(g, s) ==
    IF s.j > Len(g.graph[s.vert + 1]) THEN [s EXCEPT !.pc = "while"]
    ELSE LET to == g.graph[s.vert + 1][s.j] IN
         IF s.color[to + 1] = 0
         THEN [s EXCEPT !.color[to + 1] = s.color[s.vert + 1],
                        !.distance[to + 1] = s.distance[s.vert + 1] + 2,
                        !.queue = Append(@, to),
                        !.j = @ + 1]
         ELSE IF s.color[to + 1] # s.color[s.vert + 1]
         THEN LET current_distance ==
                      U32Add(U32Add(U32(s.distance[to + 1]), U32(s.distance[s.vert + 1])),
                             U32(1))
              IN  IF U32Less(current_distance, s.min_distance)
                  THEN [s EXCEPT !.min_distance = current_distance,
                                 !.min_distance_ancestor = to,
                                 !.j = @ + 1]
                  ELSE [s EXCEPT !.j = @ + 1]
         ELSE [s EXCEPT !.j = @ + 1]

\* for (to : graph.graph[vert]): one neighbour
For(g, s) ==
    IF s.j > Len(g.graph[s.vert + 1]) THEN [s EXCEPT !.pc = "while"]
    ELSE LET to == g.graph[s.vert + 1][s.j] IN
         IF s.color[to + 1] = 0
         THEN [s EXCEPT !.color[to + 1] = s.color[s.vert + 1],
                        !.distance[to + 1] = s.distance[s.vert + 1] + 1,
                        !.queue = Append(@, to),
                        !.j = @ + 1]
         ELSE IF s.color[to + 1] # s.color[s.vert + 1]
         THEN LET current_distance ==
                      U32Add(U32Add(U32(s.distance[to + 1]), U32(s.distance[s.vert + 1])),
                             U32(1))
              IN  IF U32Less(current_distance, s.min_distance)
                  THEN [s EXCEPT !.min_distance = current_distance,
                                 !.min_distance_ancestor = to,
                                 !.j = @ + 1]
                  ELSE [s EXCEPT !.j = @ + 1]
         ELSE [s EXCEPT !.j = @ + 1]

Returned(s) == s.pc \in {"done", "throw"}

BfsNext(g, s) ==
    CASE s.pc = "seed_a" -> SeedA(g, s)
      [] s.pc = "seed_b" -> SeedB(g, s)
      [] s.pc = "while"  -> While(g, s)
      [] s.pc = "for"    -> For(g, s)
      [] OTHER           -> s

RECURSIVE Run(_, _)
Run(g, s) == IF Returned(s) THEN s ELSE Run(g, BfsNext(g, s))

\* the whole call: the frame it returns (or throws) with
ancestor_length(g, subset_a, subset_b) == Run(g, Start(g, subset_a, subset_b))

\* the set's ids in increasing order, as std::set iterates them
RECURSIVE SortedSeq(_)
SortedSeq(S) ==
    IF S = {} THEN <<>>
    ELSE LET m == CHOOSE x \in S : \A y \in S : x <= y
         IN  <<m>> \o SortedSeq(S \ {m})

length(g, v, w) == ancestor_length(g, <<v>>, <<w>>).result.second

ancestor(g, v, w) == ancestor_length(g, <<v>>, <<w>>).result.first

length_subset(g, subset_a, subset_b) ==
    ancestor_length(g, SortedSeq(subset_a), SortedSeq(subset_b)).result.second

ancestor_subset(g, subset_a, subset_b) ==
    ancestor_length(g, SortedSeq(subset_a), SortedSeq(subset_b)).result.first

-----------------------------------------------------------------------------
(* WordNet: the synsets stream holds one line per id, with one noun of its *)
(* own; the hypernyms stream is read one target at a time.                 *)

\* word_ids[noun]: the ids of the synsets the noun occurs in
word_ids(noun) == <<noun>>

\* WordNet::find_sca_distance
find_sca_distance(g, noun1, noun2) ==
    ancestor_length(g, word_ids(noun1), word_ids(noun2))

\* WordNet::distance
distance(g, noun1, noun2) == find_sca_distance(g, noun1, noun2).result.second

-----------------------------------------------------------------------------
(* Outcast::outcast over the nouns ws (in std::set order).                 *)

\* the inner loop: for (j = next(i); j != end; ++j)
RECURSIVE InnerLoop(_, _, _, _, _)
InnerLoop(g, ws, distances, first_pos, second_pos) ==
    IF second_pos > Len(ws) THEN distances
    ELSE LET d == distance(g, ws[first_pos], ws[second_pos])
         IN  InnerLoop(g, ws,
                       [distances EXCEPT ![first_pos] = U32Add(@, d),
                                         ![second_pos] = U32Add(@, d)],
                       first_pos, second_pos + 1)

\* the outer loop: st is [distances, answer_word_number, max_dist_was_repeated]
RECURSIVE OuterLoop(_, _, _, _)
OuterLoop(g, ws, st, first_pos) ==
    IF first_pos > Len(ws) THEN st
    ELSE LET distances == InnerLoop(g, ws, st.distances, first_pos, first_pos + 1)
         IN  OuterLoop(g, ws,
                IF U32Less(distances[st.answer_word_number], distances[first_pos])
                   \/ first_pos = 1
                THEN [distances |-> distances,
                      answer_word_number |-> first_pos,
                      max_dist_was_repeated |-> FALSE]
                ELSE IF distances[first_pos] = distances[st.answer_word_number]
                THEN [st EXCEPT !.distances = distances,
                                !.max_dist_was_repeated = TRUE]
                ELSE [st EXCEPT !.distances = distances],
                first_pos + 1)

\* the returned string: <<>> is "", <<w>> is the noun w
outcast(g, nouns) ==
    IF Cardinality(nouns) <= 2 THEN <<>>
    ELSE LET ws == SortedSeq(nouns)
             st == OuterLoop(g, ws,
                             [distances |-> [k \in 1 .. Len(ws) |-> U32(0)],
                              answer_word_number |-> 1,
                              max_dist_was_repeated |-> FALSE],
                             1)
         IN  IF st.max_dist_was_repeated THEN <<>> ELSE <<ws[st.answer_word_number]>>

-----------------------------------------------------------------------------
(* WordNet driven by its input streams, then queried.                      *)

\* external ids of the large instance are 0 .. MaxIdLarge
MaxIdLarge == 5
\* at most MaxEdgesLarge hypernym targets in the large instance
MaxEdgesLarge == 5

IdsLarge == 0 .. MaxIdLarge

\* the id lists a noun may have: 1 .. MaxSub distinct ids, in the increasing
\* order of a synsets stream sorted by id
SubsetSeqs(ids) ==
    { SortedSeq(S) : S \in { T \in SUBSET ids : Cardinality(T) \in 1 .. MaxSub } }

InitWordNet ==
    /\ graph = <<>>
    /\ id_vert_map = <<>>
    /\ vert_id_map = <<>>
    /\ capacity = 0
    /\ crashed = FALSE
    /\ calls = <<>>
    /\ pc = "ctor"
    /\ bfs = NoFrame
    /\ ret = NoReturn

\* graph.reset_graph_size(source_lines.size())
Reserve(source_lines_size) ==
    /\ pc = "ctor"
    /\ SetDigraph(reset_graph_size(dg, source_lines_size))
    /\ pc' = "hypernyms"
    /\ UNCHANGED <<crashed, calls, bfs, ret>>

\* one graph.add_edge(from, to) of the hypernyms loop
ReadHypernym(from, to, max) ==
    /\ ~crashed
    /\ pc = "hypernyms"
    /\ Len(calls) < max
    /\ \E o \in add_edge(dg, from, to) :
          /\ SetDigraph(o.g)
          /\ crashed' = o.crashed
    /\ calls' = Append(calls, <<from, to>>)
    /\ UNCHANGED <<pc, bfs, ret>>

\* the hypernyms stream ends: the constructor returns
EndOfHypernyms ==
    /\ ~crashed
    /\ pc = "hypernyms"
    /\ pc' = "ready"
    /\ UNCHANGED <<graph, id_vert_map, vert_id_map, capacity, crashed, calls, bfs, ret>>

\* a whole ancestor_length call; bfs keeps the frame it returned (or threw) with
Query(subset_a, subset_b) ==
    /\ pc = "ready"
    /\ bfs = NoFrame /\ ret = NoReturn
    /\ bfs' = ancestor_length(dg, subset_a, subset_b)
    /\ UNCHANGED <<graph, id_vert_map, vert_id_map, capacity, crashed, calls, pc, ret>>

\* Outcast::outcast; distance throws on a noun whose id is in no hypernym line
OutcastCall(nouns) ==
    /\ pc = "ready"
    /\ bfs = NoFrame /\ ret = NoReturn
    /\ ret' = IF Cardinality(nouns) <= 2 \/ nouns \subseteq DOMAIN id_vert_map
              THEN [op |-> "outcast", nouns |-> nouns, val |-> outcast(dg, nouns)]
              ELSE [op |-> "outcast_throw", nouns |-> nouns]
    /\ UNCHANGED <<graph, id_vert_map, vert_id_map, capacity, crashed, calls, pc, bfs>>

\* the caller is done with what the call returned (or threw)
Return ==
    /\ pc = "ready"
    /\ bfs # NoFrame \/ ret # NoReturn
    /\ bfs' = NoFrame
    /\ ret' = NoReturn
    /\ UNCHANGED <<graph, id_vert_map, vert_id_map, capacity, crashed, calls, pc>>

Next ==
    \/ Reserve(Cardinality(Ids))
    \/ \E from \in Ids, to \in Ids : ReadHypernym(from, to, MaxEdges)
    \/ EndOfHypernyms
    \/ \E subset_a \in SubsetSeqs(Ids), subset_b \in SubsetSeqs(Ids) :
          Query(subset_a, subset_b)
    \/ \E nouns \in SUBSET Ids : OutcastCall(nouns)
    \/ Return

Spec == InitWordNet /\ [][Next]_vars

(* The large instance: an acyclic hypernyms stream (every edge goes from a *)
(* larger id to a smaller one) read in increasing order, and queries of a  *)
(* noun of several synsets against a noun of one.                          *)

PairLess(p, q) == p[1] < q[1] \/ (p[1] = q[1] /\ p[2] < q[2])

ReadHypernymSorted(from, to) ==
    /\ from > to
    /\ IF calls = <<>> THEN TRUE ELSE PairLess(calls[Len(calls)], <<from, to>>)
    /\ ReadHypernym(from, to, MaxEdgesLarge)

NextLarge ==
    \/ Reserve(Cardinality(IdsLarge))
    \/ \E from \in IdsLarge, to \in IdsLarge : ReadHypernymSorted(from, to)
    \/ EndOfHypernyms
    \/ \E subset_a \in SubsetSeqs(IdsLarge), b \in IdsLarge : Query(subset_a, <<b>>)
    \/ Return

SpecLarge == InitWordNet /\ [][NextLarge]_vars

-----------------------------------------------------------------------------
(* What the claims speak of: directed paths in the stored digraph.         *)

Range(q) == {q[k] : k \in DOMAIN q}

Vertices(g) == 0 .. Len(g.graph) - 1

\* the vertices one edge away from a member of S
Succ(g, S) == UNION {Range(g.graph[v + 1]) : v \in S}

\* breadth-first layers: d[x] is the length of the shortest directed path
\* from a member of the start set to x, or -1 when there is none
RECURSIVE Layers(_, _, _, _)
Layers(g, frontier, k, d) ==
    LET nxt == {x \in Succ(g, frontier) : d[x] = -1}
    IN  IF nxt = {} THEN d
        ELSE Layers(g, nxt, k + 1, [x \in DOMAIN d |-> IF x \in nxt THEN k + 1 ELSE d[x]])

Dist(g, S) == Layers(g, S, 0, [x \in Vertices(g) |-> IF x \in S THEN 0 ELSE -1])

Acyclic(g) == \A v \in Vertices(g) : Dist(g, Succ(g, {v}))[v] = -1

\* the dense vertices of a list of registered ids
Verts(g, ids) == {g.id_vert_map[ids[k]] : k \in DOMAIN ids}

\* the vertices reachable from a member of A and from a member of B
CommonAncestors(g, A, B) == {x \in Vertices(g) : Dist(g, A)[x] >= 0 /\ Dist(g, B)[x] >= 0}

\* the length of the shortest ancestral path through x
PathLen(g, A, B, x) == Dist(g, A)[x] + Dist(g, B)[x]

SetMin(S) == CHOOSE m \in S : \A n \in S : m <= n

\* the frame in bfs is a returned ancestor_length call on registered ids
Done ==
    /\ bfs.pc = "done"
    /\ Range(bfs.subset_a) \cup Range(bfs.subset_b) \subseteq DOMAIN id_vert_map
FrameA == Verts(dg, bfs.subset_a)
FrameB == Verts(dg, bfs.subset_b)

(* C1: in an acyclic digraph, when A and B have a common ancestor, the     *)
(* returned distance is the minimum over all vertices x of                 *)
(* dist(A, x) + dist(B, x), and the returned ancestor attains it.          *)
C1_ShortestAncestralPath ==
    (Done /\ Acyclic(dg) /\ CommonAncestors(dg, FrameA, FrameB) # {}) =>
        LET common == CommonAncestors(dg, FrameA, FrameB)
            m == SetMin({PathLen(dg, FrameA, FrameB, x) : x \in common})
        IN  /\ bfs.result.second = U32(m)
            /\ \E x \in common : /\ vert_id_map[x + 1] = bfs.result.first
                                 /\ PathLen(dg, FrameA, FrameB, x) = m

(* C2: in an acyclic digraph the returned distance is the same with the    *)
(* two subsets exchanged.                                                  *)
C2_LengthSymmetric ==
    (Done /\ Acyclic(dg)) =>
        bfs.result.second = ancestor_length(dg, bfs.subset_b, bfs.subset_a).result.second

(* C5: in an acyclic digraph, if w is reachable from v by a directed path  *)
(* of k edges then length(v, w) <= k and length(w, v) <= k: a returned     *)
(* singleton query, in either direction, is at most the shortest such k.   *)
C5_LengthAtMostPath ==
    (Done /\ Acyclic(dg) /\ Len(bfs.subset_a) = 1 /\ Len(bfs.subset_b) = 1) =>
        LET v == id_vert_map[bfs.subset_a[1]]
            w == id_vert_map[bfs.subset_b[1]]
        IN  /\ Dist(dg, {v})[w] >= 0 => ~U32Less(U32(Dist(dg, {v})[w]), bfs.result.second)
            /\ Dist(dg, {w})[v] >= 0 => ~U32Less(U32(Dist(dg, {w})[v]), bfs.result.second)

C5_Witness ==
    /\ Done /\ Acyclic(dg)
    /\ Len(bfs.subset_a) = 1 /\ Len(bfs.subset_b) = 1
    /\ Dist(dg, {id_vert_map[bfs.subset_a[1]]})[id_vert_map[bfs.subset_b[1]]] = 2
    /\ bfs.result.second = U32(2)

(* C3: when A and B have no common ancestor the result is an absent one:   *)
(* the distance is not 0 and the reported ancestor is no vertex of the     *)
(* graph (every vertex is then one that is not a common ancestor).         *)
C3_NoAncestorIsAbsent ==
    (Done /\ CommonAncestors(dg, FrameA, FrameB) = {}) =>
        /\ bfs.result.second # U32(0)
        /\ bfs.result.first \notin Range(vert_id_map)

Shared == Range(bfs.subset_a) \cap Range(bfs.subset_b)

(* C4: when the subsets share an id the call returns distance 0 and an id  *)
(* of both subsets, before any expansion: nothing was popped (the queue    *)
(* still starts with A's vertices), no distance and no meeting was set.    *)
C4_OverlapShortCircuit ==
    (Done /\ Shared # {}) =>
        /\ bfs.result.second = U32(0)
        /\ bfs.result.first \in Shared
        /\ bfs.min_distance = UINT_MAX
        /\ \A k \in DOMAIN bfs.distance : bfs.distance[k] = 0
        /\ Len(bfs.queue) >= Len(bfs.subset_a)
        /\ \A k \in DOMAIN bfs.subset_a : bfs.queue[k] = id_vert_map[bfs.subset_a[k]]

C4_Witness ==
    /\ Done /\ Shared # {}
    /\ Len(bfs.subset_a) = 2 /\ Len(bfs.subset_b) = 2
    /\ bfs.subset_a # bfs.subset_b
    /\ bfs.result.first = bfs.subset_b[2]
    /\ bfs.result.first # id_vert_map[bfs.result.first]

\* exact sums of unsigned values: the high half is not reduced
WideAdd(a, b) ==
    LET lo == a.lo + b.lo
    IN  [hi |-> a.hi + b.hi + (lo \div Half), lo |-> lo % Half]

RECURSIVE SumOfDistances(_, _, _)
SumOfDistances(g, w, others) ==
    IF others = {} THEN U32(0)
    ELSE LET o == CHOOSE x \in others : TRUE
         IN  WideAdd(distance(g, w, o), SumOfDistances(g, w, others \ {o}))

(* C6: for 3 or more nouns outcast returns the noun whose sum of distances *)
(* to the others is strictly greater than every other noun's sum, and the  *)
(* empty string when no noun's is; for 2 or fewer, the empty string.       *)
C6_OutcastStrictMax ==
    ret.op = "outcast" =>
        LET nouns == ret.nouns
            sum(w) == SumOfDistances(dg, w, nouns \ {w})
            best == {w \in nouns : \A o \in nouns \ {w} : U32Less(sum(o), sum(w))}
        IN  IF Cardinality(nouns) <= 2 THEN ret.val = <<>>
            ELSE IF best # {} THEN \E w \in best : ret.val = <<w>>
            ELSE ret.val = <<>>

\* the last add_edge call
LastCall == calls[Len(calls)]

(* C7: add_edge(a, b) appends b to get_neighbours(a) and leaves            *)
(* get_neighbours(x) unchanged for every other id x.                       *)
C7_AddEdgeAppends ==
    [][calls' # calls =>
          /\ ~crashed'
          /\ get_neighbours(dg', LastCall'[1])
                = {Append(r, LastCall'[2]) : r \in get_neighbours(dg, LastCall'[1])}
          /\ \A x \in Ids \ {LastCall'[1]} : get_neighbours(dg', x) = get_neighbours(dg, x)]_vars

(* C8: the two maps are inverse bijections between the registered ids and  *)
(* 0 .. N-1, the adjacency table has N entries whose elements are below N, *)
(* and size() = N is the number of distinct endpoints of add_edge calls.   *)
C8_DenseBijection ==
    ~crashed =>
        LET N == Len(vert_id_map) IN
        /\ DOMAIN id_vert_map = Range(vert_id_map)
        /\ \A x \in DOMAIN id_vert_map :
              id_vert_map[x] \in 0 .. N - 1 /\ vert_id_map[id_vert_map[x] + 1] = x
        /\ \A i \in 0 .. N - 1 : id_vert_map[vert_id_map[i + 1]] = i
        /\ Len(graph) = N
        /\ \A i \in 1 .. Len(graph) : Range(graph[i]) \subseteq 0 .. N - 1
        /\ size(dg) = Cardinality(UNION {{c[1], c[2]} : c \in Range(calls)})

\* what a caller can observe of a Digraph
Observables(g) ==
    [neighbours |-> [x \in Ids |-> get_neighbours(g, x)],
     size |-> size(g),
     dump |-> print(g)]

\* the add_edge calls cs made on g
RECURSIVE Replay(_, _)
Replay(g, cs) ==
    IF cs = <<>> THEN g
    ELSE Replay((CHOOSE o \in add_edge(g, cs[1][1], cs[1][2]) : ~o.crashed).g, Tail(cs))

(* C9: reset_graph_size has no observable effect: whatever was reserved,   *)
(* the add_edge calls made so far leave the observables they leave after   *)
(* a reservation large enough for every vertex.                            *)
C9_ReserveUnobservable ==
    /\ ~crashed
    /\ Observables(dg)
          = Observables(Replay(reset_graph_size(EmptyDigraph, 2 * Len(calls)), calls))

\* the frames of a call, from s to its return
RECURSIVE Trace(_, _)
Trace(g, s) == IF Returned(s) THEN <<s>> ELSE <<s>> \o Trace(g, BfsNext(g, s))

\* the vertices at the end of a directed path of exactly k edges from S
RECURSIVE ReachIn(_, _, _)
ReachIn(g, S, k) == IF k = 0 THEN S ELSE Succ(g, ReachIn(g, S, k - 1))

\* every coloured vertex is distance[x] edges from a seed of its colour
FrameSound(g, s) ==
    \A x \in Vertices(g) :
        s.color[x + 1] # 0 =>
            x \in ReachIn(g, Verts(g, IF s.color[x + 1] = 1 THEN s.subset_a ELSE s.subset_b),
                          s.distance[x + 1])

\* what s has coloured keeps its colour and distance in t
FrameStable(s, t) ==
    \A k \in DOMAIN s.color :
        s.color[k] # 0 => t.color[k] = s.color[k] /\ t.distance[k] = s.distance[k]

(* C10: at every point of the call each coloured vertex is reachable from  *)
(* a seed of its colour by a path of exactly distance[x] edges, colours    *)
(* and distances never change once set, and a returned distance other than *)
(* the sentinel is the sum of the lengths of a path from A and a path from *)
(* B to the returned ancestor, hence at least dist(A, x) + dist(B, x).     *)
C10_MeetingsSound ==
    Done =>
        LET T == Trace(dg, Start(dg, bfs.subset_a, bfs.subset_b))
            x == id_vert_map[bfs.result.first]
        IN  /\ \A k \in 1 .. Len(T) : FrameSound(dg, T[k])
            /\ \A k \in 1 .. Len(T) - 1 : FrameStable(T[k], T[k + 1])
            /\ bfs.result.second # UINT_MAX =>
                  /\ bfs.result.first \in DOMAIN id_vert_map
                  /\ \E ka \in 0 .. Len(graph), kb \in 0 .. Len(graph) :
                        /\ x \in ReachIn(dg, FrameA, ka)
                        /\ x \in ReachIn(dg, FrameB, kb)
                        /\ bfs.result.second = U32(ka + kb)
                  /\ x \in CommonAncestors(dg, FrameA, FrameB)
                  /\ ~U32Less(bfs.result.second, U32(PathLen(dg, FrameA, FrameB, x)))

C10_Witness ==
    /\ Done
    /\ bfs.result.second = U32(2)
    /\ bfs.min_distance = U32(2)
    /\ bfs.result.first # id_vert_map[bfs.result.first]

=============================================================================
